---- MODULE Spec2Model ----
(***************************************************************************)
(* Model of ComfyUI-APIimage: the persistent API configuration store       *)
(* (config.py), the configuration nodes (nodes_config.py) and the Gemini   *)
(* generation node (nodes_gemini.py).                                      *)
(*                                                                         *)
(* Python values are modelled as follows.                                  *)
(*   - A str is a sequence of chunks; the chunk " " is a whitespace        *)
(*     character, every other chunk is a run of non-whitespace text, so    *)
(*     "" is << >> and " x " is <<" ", "x", " ">>.                         *)
(*   - A dict is a function whose DOMAIN is its key set.                   *)
(*   - A list is a sequence.                                               *)
(*   - Objects shared between two dicts (aliasing after a shallow          *)
(*     dict.copy()) are tracked by an alias record, and a mutation of a    *)
(*     shared object is applied to every holder.                           *)
(***************************************************************************)
EXTENDS Integers, Sequences, FiniteSets, TLC

VARIABLES
    file,            \* api_config.json on disk
    DEFAULT_CONFIG,  \* the module-level dict DEFAULT_CONFIG["api_configs"]
    added,           \* ghost: per api_type, the names added and not removed since, each
                     \* once, in the order of the calls that added them
    last,            \* ghost: the last call made and whether it returned a true value
    gen,             \* one call of GeminiImageGenerate.generate: its position and locals
    callers          \* processes that share the file, each inside or between its calls

vars == <<file, DEFAULT_CONFIG, added, last, gen, callers>>

cfgVars == <<file, DEFAULT_CONFIG, added, last, callers>>

-----------------------------------------------------------------------------
(* Bounds of the model *)

\* mutations the concurrent callers start in one behaviour
MaxMutations == 3

\* a custom model list is only grown up to this length
MaxCustom == 3

\* the largest num_images a generate call is made with (the node allows 1..4)
MaxImages == 2

-----------------------------------------------------------------------------
(* Python str *)

WS == " "

S(t) == <<t>>

EmptyStr == << >>

RECURSIVE lstrip(_)
lstrip(s) == IF s # << >> /\ Head(s) = WS THEN lstrip(Tail(s)) ELSE s

RECURSIVE rstrip(_)
rstrip(s) ==
    IF s # << >> /\ s[Len(s)] = WS THEN rstrip(SubSeq(s, 1, Len(s) - 1)) ELSE s

\* str.strip()
strip(s) == rstrip(lstrip(s))

\* truthiness of a str: `if s`
Truthy(s) == s # << >>

(* Python Optional argument: None or a value *)
None == [none |-> TRUE]

Some(v) == [some |-> v]

IsNone(o) == "none" \in DOMAIN o

(* Python list *)
Contains(l, x) == \E i \in 1..Len(l) : l[i] = x

\* list.remove(x): deletes the first occurrence
ListRemove(l, x) ==
    LET i == CHOOSE j \in 1..Len(l) : l[j] = x /\ \A k \in 1..(j - 1) : l[k] # x
    IN  SubSeq(l, 1, i - 1) \o SubSeq(l, i + 1, Len(l))

NoDup(l) == \A i, j \in 1..Len(l) : l[i] = l[j] => i = j

(* Python dict *)
Put(d, k, v) == [x \in (DOMAIN d) \cup {k} |-> IF x = k THEN v ELSE d[x]]

Get(d, k, dflt) == IF k \in DOMAIN d THEN d[k] ELSE dflt

-----------------------------------------------------------------------------
(* config.py: module constants *)

BackendIds ==
    {"Gemini Native", "Grok API", "OpenAI Compatible", "Qwen Image", "GLM Image"}

BUILTIN_MODELS ==
    [b \in BackendIds |->
        CASE b = "Gemini Native" ->
                <<S("gemini-2.5-flash-image"), S("gemini-3-pro-image-preview")>>
          [] b = "Grok API" ->
                <<S("grok-imagine-image"), S("grok-imagine-image-pro")>>
          [] b = "OpenAI Compatible" ->
                <<S("dall-e-3"), S("dall-e-2"), S("gpt-image-1")>>
          [] b = "Qwen Image" ->
                <<S("qwen-image-plus"), S("qwen-image-edit")>>
          [] b = "GLM Image" ->
                <<S("glm-image"), S("cogview-4-250304")>>]

Entry(key, url, model, customs) ==
    [api_key |-> key, base_url |-> url, model_name |-> model, custom_models |-> customs]

\* the value DEFAULT_CONFIG["api_configs"] is compiled with
CompiledDefaults ==
    [b \in BackendIds |->
        CASE b = "Gemini Native" ->
                Entry(EmptyStr, S("(SDK - Automatic)"), S("gemini-2.5-flash-image"), << >>)
          [] b = "Grok API" ->
                Entry(EmptyStr, S("https://api.x.ai"), S("grok-imagine-image-pro"), << >>)
          [] b = "OpenAI Compatible" ->
                Entry(EmptyStr, S("https://api.openai.com"), S("dall-e-3"), << >>)
          [] b = "Qwen Image" ->
                Entry(EmptyStr, S("https://dashscope.aliyuncs.com/api/v1"),
                      S("qwen-image-plus"), << >>)
          [] b = "GLM Image" ->
                Entry(EmptyStr, S("https://open.bigmodel.cn/api"), S("glm-image"), << >>)]

\* the fallback entry of set_api_config for an api_type DEFAULT_CONFIG lacks
BlankEntry == Entry(EmptyStr, EmptyStr, EmptyStr, << >>)

-----------------------------------------------------------------------------
(* The config file *)

Missing == [kind |-> "missing"]

\* content json.load or the migration raises on: invalid JSON, a truncated
\* document, or JSON that is not a dict of dicts
Corrupt == [kind |-> "corrupt"]

Json(doc) == [kind |-> "json", doc |-> doc]

\* the document json.dump writes for the dict {"api_configs": api}
TopDoc(api) == [api_configs |-> api]

(* Storage outcomes of one call. rd: reading an existing file; wrLoad: the   *)
(* save_config made by load_config for a missing file; wr: the call's own     *)
(* save_config.                                                               *)
ReadOutcomes == {"ok", "fail"}

\* "open_fail": open(..., "w") raises, the file is untouched;
\* "interrupted": open truncated the file and json.dump raised part-way
WriteOutcomes == {"ok", "open_fail", "interrupted"}

IO(rd, wrLoad, wr) == [rd |-> rd, wrLoad |-> wrLoad, wr |-> wr]

OkIO == IO("ok", "ok", "ok")

AnyIO == {IO(r, wl, w) : r \in ReadOutcomes, wl \in WriteOutcomes, w \in WriteOutcomes}

World(f, d) == [file |-> f, dflt |-> d]

\* save_config(config): the file after the call
save_config(f, doc, wr) ==
    CASE wr = "ok" -> Json(doc)
      [] wr = "open_fail" -> f
      [] wr = "interrupted" -> Corrupt

(* What a loaded config shares with DEFAULT_CONFIG:                          *)
(*   dict:    config["api_configs"] is DEFAULT_CONFIG["api_configs"] itself   *)
(*   entries: the api_types whose entry dict is DEFAULT_CONFIG's entry        *)
(*   lists:   the api_types whose custom_models list is DEFAULT_CONFIG's list *)
Alias(dict, entries, lists) == [dict |-> dict, entries |-> entries, lists |-> lists]

\* DEFAULT_CONFIG.copy(): a new top-level dict around the same api_configs dict
DefaultCopy(d) == [config |-> TopDoc(d), alias |-> Alias(TRUE, DOMAIN d, DOMAIN d)]

\* a migration that assigns custom_models = [] unconditionally
MigrateEntry_ResetsCustoms(e, defaults) ==
    LET withCustoms == Put(e, "custom_models", << >>)
    IN  [k \in (DOMAIN withCustoms) \cup (DOMAIN defaults) |->
            IF k \in DOMAIN withCustoms THEN withCustoms[k] ELSE defaults[k]]

\* the migration of one entry the file has for a default api_type
MigrateEntry(e, defaults) ==
    LET withCustoms == IF "custom_models" \in DOMAIN e THEN e
                       ELSE Put(e, "custom_models", << >>)
    IN  [k \in (DOMAIN withCustoms) \cup (DOMAIN defaults) |->
            IF k \in DOMAIN withCustoms THEN withCustoms[k] ELSE defaults[k]]

\* the migration loop over DEFAULT_CONFIG["api_configs"].items()
MigrateApi(api, d) ==
    [b \in (DOMAIN api) \cup (DOMAIN d) |->
        IF b \notin DOMAIN d THEN api[b]
        ELSE IF b \notin DOMAIN api THEN d[b]
        ELSE MigrateEntry(api[b], d[b])]

\* a migration that rebuilds the document around api_configs alone
Migrate_DropsTopLevelKeys(doc, d) ==
    IF "api_configs" \notin DOMAIN doc
    THEN [config |-> TopDoc(d),
          alias  |-> Alias(FALSE, DOMAIN d, DOMAIN d)]
    ELSE [config |-> TopDoc(MigrateApi(doc["api_configs"], d)),
          alias  |-> Alias(FALSE, {}, (DOMAIN d) \ (DOMAIN doc["api_configs"]))]

\* load_config's try block on a parsed document
Migrate(doc, d) ==
    IF "api_configs" \notin DOMAIN doc
    THEN [config |-> Put(doc, "api_configs", d),
          alias  |-> Alias(FALSE, DOMAIN d, DOMAIN d)]
    ELSE [config |-> Put(doc, "api_configs", MigrateApi(doc["api_configs"], d)),
          alias  |-> Alias(FALSE, {}, (DOMAIN d) \ (DOMAIN doc["api_configs"]))]

\* load_config(): the config returned, what it shares with DEFAULT_CONFIG,
\* and the file afterwards
load_config(w, io) ==
    IF w.file.kind = "missing"
    THEN DefaultCopy(w.dflt) @@ [file |-> save_config(w.file, TopDoc(w.dflt), io.wrLoad)]
    ELSE IF w.file.kind = "corrupt" \/ io.rd = "fail"
    THEN DefaultCopy(w.dflt) @@ [file |-> w.file]
    ELSE Migrate(w.file.doc, w.dflt) @@ [file |-> w.file]

-----------------------------------------------------------------------------
(* config.py: the operations. Each takes the world (the file and            *)
(* DEFAULT_CONFIG) and the storage outcomes of the call, and yields the     *)
(* world afterwards and the value returned.                                 *)

Result(f, d, ret) == [w |-> World(f, d), ret |-> ret]

\* get_api_config(api_type); {} is the empty dict << >>
get_api_config(w, api_type, io) ==
    LET ld == load_config(w, io)
    IN  Result(ld.file, w.dflt, Get(Get(ld.config, "api_configs", << >>), api_type, << >>))

\* the three conditional field assignments of set_api_config
AssignFields(cfg, api_key, base_url, model_name) ==
    LET c1 == IF IsNone(api_key) THEN cfg ELSE Put(cfg, "api_key", api_key.some)
        c2 == IF IsNone(base_url) THEN c1 ELSE Put(c1, "base_url", base_url.some)
    IN  IF IsNone(model_name) THEN c2 ELSE Put(c2, "model_name", model_name.some)

\* set_api_config that starts the entry over from the blank entry
set_api_config_FromBlank(w, api_type, api_key, base_url, model_name, io) ==
    LET ld     == load_config(w, io)
        api    == ld.config["api_configs"]
        cfg    == AssignFields(BlankEntry, api_key, base_url, model_name)
        config == Put(ld.config, "api_configs", Put(api, api_type, cfg))
    IN  Result(save_config(ld.file, config, io.wr), w.dflt, cfg)

\* set_api_config(api_type, api_key, base_url, model_name)
set_api_config(w, api_type, api_key, base_url, model_name, io) ==
    LET ld     == load_config(w, io)
        api    == ld.config["api_configs"]
        absent == api_type \notin DOMAIN api
        cfg0   == IF ~absent THEN api[api_type] ELSE Get(w.dflt, api_type, BlankEntry)
        cfg    == AssignFields(cfg0, api_key, base_url, model_name)
        \* cfg is an object DEFAULT_CONFIG["api_configs"] holds too
        shared == IF absent THEN ld.alias.dict ELSE api_type \in ld.alias.entries
        config == Put(ld.config, "api_configs", Put(api, api_type, cfg))
    IN  Result(save_config(ld.file, config, io.wr),
               IF shared THEN Put(w.dflt, api_type, cfg) ELSE w.dflt,
               cfg)

\* get_model_list without its `m not in all_models` test
MergeModels_NoMembershipTest(builtin, custom) ==
    LET Keep(m) == Truthy(m)
    IN  builtin \o SelectSeq(custom, Keep)

\* get_model_list(api_type)
MergeModels(builtin, custom) ==
    LET RECURSIVE merge(_, _)
        merge(all_models, rest) ==
            IF rest = << >> THEN all_models
            ELSE LET m == Head(rest)
                 IN  IF Truthy(m) /\ ~Contains(all_models, m)
                     THEN merge(Append(all_models, m), Tail(rest))
                     ELSE merge(all_models, Tail(rest))
    IN  merge(builtin, custom)

get_model_list(w, api_type, io) ==
    LET r == get_api_config(w, api_type, io)
    IN  [r EXCEPT !.ret = MergeModels(Get(BUILTIN_MODELS, api_type, << >>),
                                      Get(r.ret, "custom_models", << >>))]

\* DEFAULT_CONFIG after the custom_models list of api_type in a loaded config
\* became `customs`: the change shows through every shared object
DefaultsAfterListChange(d, alias, api_type, absent, hadList, cfg, customs) ==
    IF (absent /\ alias.dict) \/ (~absent /\ api_type \in alias.entries)
    THEN Put(d, api_type, cfg)
    ELSE IF ~absent /\ hadList /\ api_type \in alias.lists
    THEN Put(d, api_type, Put(d[api_type], "custom_models", customs))
    ELSE d

\* add_custom_model without its `model_name not in customs` test
add_custom_model_NoDupTest(w, api_type, model_name, io) ==
    IF ~Truthy(model_name) \/ ~Truthy(strip(model_name))
    THEN Result(w.file, w.dflt, FALSE)
    ELSE
    LET name    == strip(model_name)
        ld      == load_config(w, io)
        api     == ld.config["api_configs"]
        absent  == api_type \notin DOMAIN api
        cfg0    == IF absent THEN << >> ELSE api[api_type]
        hadList == "custom_models" \in DOMAIN cfg0
        grown   == Append(Get(cfg0, "custom_models", << >>), name)
        cfg     == Put(cfg0, "custom_models", grown)
        config  == Put(ld.config, "api_configs", Put(api, api_type, cfg))
    IN  Result(save_config(ld.file, config, io.wr),
               DefaultsAfterListChange(w.dflt, ld.alias, api_type, absent,
                                       hadList, cfg, grown),
               TRUE)

\* add_custom_model that looks the name up as given and stores it stripped
add_custom_model_TestsUnstripped(w, api_type, model_name, io) ==
    IF ~Truthy(model_name) \/ ~Truthy(strip(model_name))
    THEN Result(w.file, w.dflt, FALSE)
    ELSE
    LET name    == strip(model_name)
        ld      == load_config(w, io)
        api     == ld.config["api_configs"]
        absent  == api_type \notin DOMAIN api
        cfg0    == IF absent THEN << >> ELSE api[api_type]
        hadList == "custom_models" \in DOMAIN cfg0
        customs == Get(cfg0, "custom_models", << >>)
        grown   == Append(customs, name)
        cfg     == Put(cfg0, "custom_models", grown)
        config  == Put(ld.config, "api_configs", Put(api, api_type, cfg))
    IN  IF ~Contains(customs, model_name)
        THEN Result(save_config(ld.file, config, io.wr),
                    DefaultsAfterListChange(w.dflt, ld.alias, api_type, absent,
                                            hadList, cfg, grown),
                    TRUE)
        ELSE Result(ld.file, w.dflt, FALSE)

\* add_custom_model(api_type, model_name)
add_custom_model(w, api_type, model_name, io) ==
    IF ~Truthy(model_name) \/ ~Truthy(strip(model_name))
    THEN Result(w.file, w.dflt, FALSE)
    ELSE
    LET name    == strip(model_name)
        ld      == load_config(w, io)
        api     == ld.config["api_configs"]
        absent  == api_type \notin DOMAIN api
        cfg0    == IF absent THEN << >> ELSE api[api_type]
        hadList == "custom_models" \in DOMAIN cfg0
        customs == Get(cfg0, "custom_models", << >>)
        grown   == Append(customs, name)
        cfg     == Put(cfg0, "custom_models", grown)
        config  == Put(ld.config, "api_configs", Put(api, api_type, cfg))
    IN  IF ~Contains(customs, name)
        THEN Result(save_config(ld.file, config, io.wr),
                    DefaultsAfterListChange(w.dflt, ld.alias, api_type, absent,
                                            hadList, cfg, grown),
                    TRUE)
        ELSE Result(ld.file, w.dflt, FALSE)

\* remove_custom_model that returns True without calling save_config
remove_custom_model_NoSave(w, api_type, model_name, io) ==
    LET ld      == load_config(w, io)
        customs == Get(Get(Get(ld.config, "api_configs", << >>), api_type, << >>),
                       "custom_models", << >>)
    IN  Result(ld.file, w.dflt, Contains(customs, model_name))

\* remove_custom_model that calls save_config also when the name is not found
remove_custom_model_AlwaysSave(w, api_type, model_name, io) ==
    LET ld == load_config(w, io)
    IN  Result(save_config(ld.file, ld.config, io.wr), w.dflt, FALSE)

\* remove_custom_model(api_type, model_name)
remove_custom_model(w, api_type, model_name, io) ==
    LET ld      == load_config(w, io)
        api     == Get(ld.config, "api_configs", << >>)
        absent  == api_type \notin DOMAIN api
        cfg0    == Get(api, api_type, << >>)
        customs == Get(cfg0, "custom_models", << >>)
    IN  IF Contains(customs, model_name)
        THEN LET shrunk == ListRemove(customs, model_name)
                 cfg    == Put(cfg0, "custom_models", shrunk)
                 config == Put(ld.config, "api_configs", Put(api, api_type, cfg))
             IN  Result(save_config(ld.file, config, io.wr),
                        DefaultsAfterListChange(w.dflt, ld.alias, api_type, absent,
                                                TRUE, cfg, shrunk),
                        TRUE)
        ELSE Result(ld.file, w.dflt, FALSE)

-----------------------------------------------------------------------------
(* nodes_config.py: the loader and the saver node. A status is the sequence *)
(* of its parts, which " | ".join makes one string of.                      *)

\* `x and x.strip()`: the argument is given and not blank
Given(x) == Truthy(x) /\ Truthy(strip(x))

\* an override expression that tests the override without stripping it
Override_NoStripTest(override, cfg, field) ==
    IF Truthy(override) THEN strip(override) ELSE Get(cfg, field, EmptyStr)

\* `o.strip() if o and o.strip() else cfg.get(field, "")`
Override(override, cfg, field) ==
    IF Given(override) THEN strip(override) ELSE Get(cfg, field, EmptyStr)

\* APIImageConfigLoader.load(api_type, api_key_override, base_url_override,
\* model_override)
APIImageConfigLoader_load(w, api_type, api_key_override, base_url_override, model_override, io) ==
    LET r   == get_api_config(w, api_type, io)
        cfg == r.ret
    IN  [r EXCEPT !.ret = <<Override(api_key_override, cfg, "api_key"),
                            Override(base_url_override, cfg, "base_url"),
                            Override(model_override, cfg, "model_name")>>]

\* what a step of save yields: the world afterwards and the status parts
Step(w, parts) == [w |-> w, parts |-> parts]

\* the stripped value as keyword argument, or the argument left out
Kwarg(x) == IF Given(x) THEN Some(strip(x)) ELSE None

\* the keys of save_kwargs, in the order they were put in
KwargKeys(api_key, base_url, model_name) ==
    (IF Given(api_key) THEN <<"api_key">> ELSE << >>)
    \o (IF Given(base_url) THEN <<"base_url">> ELSE << >>)
    \o (IF Given(model_name) THEN <<"model_name">> ELSE << >>)

\* save, lines 122-133: the main config
SaveMain(w, api_type, api_key, base_url, model_name, io) ==
    LET keys == KwargKeys(api_key, base_url, model_name)
    IN  IF keys # << >>
        THEN Step(set_api_config(w, api_type, Kwarg(api_key), Kwarg(base_url),
                                 Kwarg(model_name), io).w,
                  <<<<"Saved config for", api_type, keys>>>>)
        ELSE Step(w, << >>)

\* an add step that reports the model as added whatever add_custom_model returns
SaveAdd_IgnoresResult(w, api_type, add_custom_model_name, io) ==
    IF Given(add_custom_model_name)
    THEN Step(add_custom_model(w, api_type, strip(add_custom_model_name), io).w,
              <<<<"Added custom model", strip(add_custom_model_name)>>>>)
    ELSE Step(w, << >>)

\* save, lines 135-141: add custom model
SaveAdd(w, api_type, add_custom_model_name, io) ==
    IF Given(add_custom_model_name)
    THEN LET name == strip(add_custom_model_name)
             r    == add_custom_model(w, api_type, name, io)
         IN  Step(r.w, IF r.ret THEN <<<<"Added custom model", name>>>>
                                ELSE <<<<"Model already exists", name>>>>)
    ELSE Step(w, << >>)

\* save, lines 143-149: remove custom model
SaveRemove(w, api_type, remove_custom_model_name, io) ==
    IF Given(remove_custom_model_name)
    THEN LET name == strip(remove_custom_model_name)
             r    == remove_custom_model(w, api_type, name, io)
         IN  Step(r.w, IF r.ret THEN <<<<"Removed custom model", name>>>>
                                ELSE <<<<"Model not found", name>>>>)
    ELSE Step(w, << >>)

\* a save that removes before it adds
APIImageConfigSaver_save_RemovesFirst(w, api_type, api_key, base_url, model_name, add_custom_model_name, remove_custom_model_name, ios) ==
    LET main  == SaveMain(w, api_type, api_key, base_url, model_name, ios[1])
        rem   == SaveRemove(main.w, api_type, remove_custom_model_name, ios[3])
        add   == SaveAdd(rem.w, api_type, add_custom_model_name, ios[2])
        parts == main.parts \o add.parts \o rem.parts
    IN  [w |-> add.w,
         ret |-> IF parts # << >> THEN parts ELSE <<<<"No changes to save">>>>]

\* APIImageConfigSaver.save(api_type, api_key, base_url, model_name,
\* add_custom_model_name, remove_custom_model_name); ios are the storage
\* outcomes of its three calls
APIImageConfigSaver_save(w, api_type, api_key, base_url, model_name, add_custom_model_name, remove_custom_model_name, ios) ==
    LET main  == SaveMain(w, api_type, api_key, base_url, model_name, ios[1])
        add   == SaveAdd(main.w, api_type, add_custom_model_name, ios[2])
        rem   == SaveRemove(add.w, api_type, remove_custom_model_name, ios[3])
        parts == main.parts \o add.parts \o rem.parts
    IN  [w |-> rem.w,
         ret |-> IF parts # << >> THEN parts ELSE <<<<"No changes to save">>>>]

-----------------------------------------------------------------------------
(* nodes_gemini.py: GeminiImageGenerate.generate, one step per statement     *)
(* group. The host imports torch before it loads any node, so the            *)
(* function's own `import torch` is taken to succeed.                        *)

MODEL_REF_IMAGE_LIMITS ==
    [m \in {S("gemini-2.5-flash-image"), S("gemini-3-pro-image-preview")} |->
        IF m = S("gemini-2.5-flash-image") THEN <<0, 3>> ELSE <<0, 14>>]

NoError == [kind |-> "none"]

Raised(type, what) == [kind |-> type, what |-> what]

NoResponse == [parts |-> << >>, finish_reason |-> "none", blocked |-> {}]

GenIdle ==
    [pc |-> "idle", req |-> << >>, effective_model |-> EmptyStr,
     client |-> FALSE, gen_config |-> FALSE, contents |-> FALSE,
     gen_idx |-> 0, invocations |-> 0, response |-> NoResponse,
     responses |-> << >>, error_str |-> EmptyStr,
     all_images_data |-> << >>, all_text_messages |-> << >>,
     error |-> NoError]

\* utils.validate_ref_images(api, model, ref_images, limits): the count of
\* reference images is within the (min, max) registered for the model;
\* ref_images None counts as 0, a model without limits accepts any count
validate_ref_images(model, ref_count, limits) ==
    model \in DOMAIN limits =>
        (limits[model][1] <= ref_count /\ ref_count <= limits[model][2])

\* `token in error_str`: an error message is the sequence of its fragments,
\* cut so that a token is a substring exactly when it is one of them
Mentions(error_str, token) == Contains(error_str, token)

\* str.lower() of a fragment
Lower(fragment) ==
    CASE fragment = "Timeout"   -> "timeout"
      [] fragment = "TIMED OUT" -> "timed out"
      [] OTHER                  -> fragment

\* error_str.lower()
LowerStr(error_str) == [i \in 1..Len(error_str) |-> Lower(error_str[i])]

\* the prefix of every message generate raises
BackendTag == "[APIImage Gemini]"

\* an except branch that answers every error with the generic message and
\* leaves the raw message out
ClassifyError_DropsRawMessage(error_str, effective_model) ==
    Raised("RuntimeError", <<BackendTag, "API Error">>)

\* the except branch of the generate_content call: the RuntimeError raised
ClassifyError(error_str, effective_model) ==
    IF Mentions(error_str, "401") \/ Mentions(error_str, "UNAUTHENTICATED")
    THEN Raised("RuntimeError", <<BackendTag, "Authentication failed (401)">>)
    ELSE IF Mentions(error_str, "404") \/ Mentions(error_str, "NOT_FOUND")
    THEN Raised("RuntimeError", <<BackendTag, "Model not found (404)", effective_model>>)
    ELSE IF Mentions(error_str, "403") \/ Mentions(error_str, "PERMISSION_DENIED")
    THEN Raised("RuntimeError", <<BackendTag, "Permission denied (403)">>)
    ELSE IF Mentions(error_str, "429") \/ Mentions(error_str, "RESOURCE_EXHAUSTED")
    THEN Raised("RuntimeError", <<BackendTag, "API quota exceeded (429)">>)
    ELSE IF Mentions(error_str, "503") \/ Mentions(error_str, "UNAVAILABLE")
    THEN Raised("RuntimeError", <<BackendTag, "Model overloaded (503)">>)
    ELSE IF Mentions(LowerStr(error_str), "timed out")
            \/ Mentions(LowerStr(error_str), "timeout")
    THEN Raised("RuntimeError", <<BackendTag, "Network timeout">>)
    ELSE Raised("RuntimeError", <<BackendTag, "API Error", error_str>>)

(* A response part is "thought", "text", "image" (inline data as_image       *)
(* decodes), "raw" (as_image fails, the raw bytes are taken) or "broken"     *)
(* (inline data that yields nothing).                                        *)
RECURSIVE PartsOf(_, _)
PartsOf(parts, kinds) ==
    IF parts = << >> THEN << >>
    ELSE (IF Head(parts) \in kinds THEN <<Head(parts)>> ELSE << >>)
         \o PartsOf(Tail(parts), kinds)

\* the images and the texts the parse loop appends for one response
ParsedImages(response, gen_idx) ==
    LET found == PartsOf(response.parts, {"image", "raw"})
    IN  [i \in 1..Len(found) |-> <<gen_idx, i>>]

ParsedTexts(response, gen_idx) ==
    LET found == PartsOf(response.parts, {"text"})
    IN  [i \in 1..Len(found) |-> <<"text", gen_idx, i>>]

\* the error_parts of the final `if not all_images_data` block
ErrorParts(response, all_text_messages) ==
    LET blocked == IF response.finish_reason \notin {"none", "STOP"}
                   THEN <<<<"Blocked", response.finish_reason>>>> ELSE << >>
        safety  == IF response.blocked # {}
                   THEN <<<<"Safety", response.blocked>>>> ELSE << >>
        text    == IF all_text_messages # << >>
                   THEN <<<<"Model response", all_text_messages>>>> ELSE << >>
        parts   == blocked \o safety \o text
    IN  IF parts = << >> THEN <<<<"No image data in response">>>> ELSE parts

(* Inputs of generate *)
Prompts == {EmptyStr, <<WS, WS>>, S("a cat")}

ApiKeys == {EmptyStr, <<WS>>, <<WS, "AIzaSy", WS>>}

Requests ==
    [prompt : Prompts, api_key : ApiKeys,
     model_name : {S("gemini-2.5-flash-image")},
     custom_model : {EmptyStr, S("my-model")},
     ref_count : {0, 5},
     num_images : 1..MaxImages]

\* what generate_content does: it raises, the error message given by its words
BackendErrors ==
    {<<"401", "UNAUTHENTICATED">>,
     <<"404", "NOT_FOUND", "models/gemini-", "503">>,
     <<"503", "UNAVAILABLE", "request ", "401", "7">>,
     <<"Read ", "TIMED OUT">>,
     <<"connection", "reset">>}

\* or it returns a response
BackendResponses ==
    {[parts |-> <<"text", "image">>, finish_reason |-> "STOP", blocked |-> {}],
     [parts |-> <<"thought", "text">>, finish_reason |-> "STOP", blocked |-> {}],
     [parts |-> << >>, finish_reason |-> "SAFETY", blocked |-> {"HARM"}]}

\* an input validation that tests `not prompt` and `not api_key` without strip()
GenStart_NoStrip(req) ==
    /\ gen.pc = "idle"
    /\ gen' =
        IF ~Truthy(req.prompt)
        THEN [gen EXCEPT !.pc = "raised", !.req = req,
                         !.error = Raised("ValueError", "Prompt is empty")]
        ELSE IF ~Truthy(req.api_key)
        THEN [gen EXCEPT !.pc = "raised", !.req = req,
                         !.error = Raised("ValueError", "API Key is not set")]
        ELSE [gen EXCEPT !.pc = "import", !.req = req,
                         !.effective_model =
                             IF Truthy(req.custom_model) /\ Truthy(strip(req.custom_model))
                             THEN strip(req.custom_model) ELSE req.model_name]
    /\ UNCHANGED cfgVars

\* lines 120-139: the input validation and the effective model
GenStart(req) ==
    /\ gen.pc = "idle"
    /\ gen' =
        IF ~Truthy(req.prompt) \/ ~Truthy(strip(req.prompt))
        THEN [gen EXCEPT !.pc = "raised", !.req = req,
                         !.error = Raised("ValueError", "Prompt is empty")]
        ELSE IF ~Truthy(req.api_key) \/ ~Truthy(strip(req.api_key))
        THEN [gen EXCEPT !.pc = "raised", !.req = req,
                         !.error = Raised("ValueError", "API Key is not set")]
        ELSE [gen EXCEPT !.pc = "import", !.req = req,
                         !.effective_model =
                             IF Truthy(req.custom_model) /\ Truthy(strip(req.custom_model))
                             THEN strip(req.custom_model) ELSE req.model_name]
    /\ UNCHANGED cfgVars

\* lines 141-150: the SDK import
GenImportSdk(ok) ==
    /\ gen.pc = "import"
    /\ gen' = IF ok THEN [gen EXCEPT !.pc = "client"]
              ELSE [gen EXCEPT !.pc = "raised",
                               !.error = Raised("ImportError", "Missing required package")]
    /\ UNCHANGED cfgVars

\* lines 152-164: genai.Client(...)
GenCreateClient(ok) ==
    /\ gen.pc = "client"
    /\ gen' = IF ok THEN [gen EXCEPT !.pc = "config", !.client = TRUE]
              ELSE [gen EXCEPT !.pc = "raised",
                               !.error = Raised("RuntimeError", "Failed to create Gemini client")]
    /\ UNCHANGED cfgVars

\* lines 166-183: types.GenerateContentConfig(...)
GenBuildConfig ==
    /\ gen.pc = "config"
    /\ gen' = [gen EXCEPT !.pc = "validate", !.gen_config = TRUE]
    /\ UNCHANGED cfgVars

\* lines 185-186: validate_ref_images
GenValidateRefs ==
    /\ gen.pc = "validate"
    /\ gen' = IF validate_ref_images(gen.effective_model, gen.req.ref_count,
                                     MODEL_REF_IMAGE_LIMITS)
              THEN [gen EXCEPT !.pc = "contents"]
              ELSE [gen EXCEPT !.pc = "raised",
                               !.error = Raised("ValueError", "reference image count")]
    /\ UNCHANGED cfgVars

\* lines 188-212: contents, and the empty accumulators
GenPrepareContents ==
    /\ gen.pc = "contents"
    /\ gen' = [gen EXCEPT !.pc = "call", !.contents = TRUE, !.gen_idx = 0]
    /\ UNCHANGED cfgVars

\* line 216: client.models.generate_content(...) is entered
GenCall ==
    /\ gen.pc = "call"
    /\ gen.gen_idx < gen.req.num_images
    /\ gen' = [gen EXCEPT !.pc = "await", !.invocations = @ + 1]
    /\ UNCHANGED cfgVars

\* an except branch that records the error and goes round the loop again
GenCallRaises_Retries(error_str) ==
    /\ gen.pc = "await"
    /\ gen' = [gen EXCEPT !.pc = "call", !.error_str = error_str,
                          !.error = ClassifyError(error_str, gen.effective_model)]
    /\ UNCHANGED cfgVars

\* lines 221-251: generate_content raised
GenCallRaises(error_str) ==
    /\ gen.pc = "await"
    /\ gen' = [gen EXCEPT !.pc = "raised", !.error_str = error_str,
                          !.error = ClassifyError(error_str, gen.effective_model)]
    /\ UNCHANGED cfgVars

\* lines 216-220, 253-277: generate_content returned; the response is parsed
GenCallReturns(response) ==
    /\ gen.pc = "await"
    /\ gen' = [gen EXCEPT
                 !.response = response,
                 !.responses = Append(@, response),
                 !.all_images_data = @ \o ParsedImages(response, gen.gen_idx),
                 !.all_text_messages = @ \o ParsedTexts(response, gen.gen_idx),
                 !.gen_idx = @ + 1,
                 !.pc = IF gen.gen_idx + 1 < gen.req.num_images THEN "call" ELSE "finish"]
    /\ UNCHANGED cfgVars

\* a final block that fails only when there is neither image nor text
GenFinish_TextCounts ==
    /\ gen.pc = "finish"
    /\ gen' = IF gen.all_images_data = << >> /\ gen.all_text_messages = << >>
              THEN [gen EXCEPT !.pc = "raised",
                               !.error = Raised("RuntimeError",
                                    <<BackendTag, "Generation failed",
                                      ErrorParts(gen.response, gen.all_text_messages)>>)]
              ELSE [gen EXCEPT !.pc = "returned"]
    /\ UNCHANGED cfgVars

\* lines 279-315: the result, or the failure for no image
GenFinish ==
    /\ gen.pc = "finish"
    /\ gen' = IF gen.all_images_data = << >>
              THEN [gen EXCEPT !.pc = "raised",
                               !.error = Raised("RuntimeError",
                                    <<BackendTag, "Generation failed",
                                      ErrorParts(gen.response, gen.all_text_messages)>>)]
              ELSE [gen EXCEPT !.pc = "returned"]
    /\ UNCHANGED cfgVars

NextGen ==
    \/ \E req \in Requests : GenStart(req)
    \/ \E ok \in BOOLEAN : GenImportSdk(ok)
    \/ \E ok \in BOOLEAN : GenCreateClient(ok)
    \/ GenBuildConfig
    \/ GenValidateRefs
    \/ GenPrepareContents
    \/ GenCall
    \/ \E e \in BackendErrors : GenCallRaises(e)
    \/ \E r \in BackendResponses : GenCallReturns(r)
    \/ GenFinish

-----------------------------------------------------------------------------
(* Inputs the calls are made with *)

\* the api_types the properties range over: two compiled backends and one
\* DEFAULT_CONFIG lacks
CheckedApiTypes == {"Gemini Native", "Grok API", "My API"}

\* every model_name the properties range over
ModelNames ==
    {EmptyStr, <<WS>>, S("x"), <<WS, "x", WS>>, S("y"), S("gemini-2.5-flash-image")}

ApiKeyArgs == {None, Some(S("sk-1"))}

BaseUrlArgs == {None, Some(S("https://proxy"))}

ModelNameArgs == {None, Some(S("x"))}

\* the arguments the calls of the state machine are made with
ApiTypes == {"Gemini Native", "My API"}

AddNames == {<<WS>>, <<WS, "x", WS>>}

RemoveNames == {S("x"), <<WS, "x", WS>>, S("y")}

SetArgs == {<<Some(S("sk-1")), None, None>>}

(* Files the program may find when it starts *)

\* a complete document, with custom models (one of them also a builtin) and
\* an entry DEFAULT_CONFIG lacks
SeedFull ==
    [api_configs |->
        Put([CompiledDefaults EXCEPT
                !["Gemini Native"].custom_models = <<S("gemini-2.5-flash-image"), S("y")>>,
                !["Gemini Native"].api_key = S("sk-0")],
            "My API", [api_key |-> S("sk-9")])]

\* an older document: one entry with a field missing and one unknown field,
\* the other backends missing, and an unknown top-level key
SeedPartial ==
    [api_configs |->
        [b \in {"Grok API"} |-> [api_key |-> S("sk-0"), note |-> S("keep")]],
     version |-> S("2")]

\* a document without the api_configs key
SeedNoApi == [version |-> S("2")]

SeedFiles == {Missing, Corrupt, Json(SeedFull), Json(SeedPartial), Json(SeedNoApi)}

-----------------------------------------------------------------------------
(* The state machine *)

\* no other process uses the file
NoCallers == [proc |-> << >>, seq |-> Missing, overlapped |-> FALSE, started |-> 0]

world == World(file, DEFAULT_CONFIG)

\* the custom_models list a call on api_type would find
CustomsOf(w, api_type) ==
    Get(get_api_config(w, api_type, OkIO).ret, "custom_models", << >>)

Call(op, api_type, arg, ret, io) ==
    [op |-> op, api_type |-> api_type, arg |-> arg, ret |-> ret, io |-> io]

Init ==
    /\ file \in SeedFiles
    /\ DEFAULT_CONFIG = CompiledDefaults
    /\ added = [b \in ApiTypes |-> CustomsOf(World(file, CompiledDefaults), b)]
    /\ last = [op |-> "init", api_type |-> "", arg |-> << >>, ret |-> FALSE, io |-> OkIO]
    /\ gen = GenIdle
    /\ callers = NoCallers

LoadConfig(io) ==
    LET ld == load_config(world, io)
    IN  /\ file' = ld.file
        /\ last' = Call("load", "", << >>, TRUE, io)
        /\ UNCHANGED <<DEFAULT_CONFIG, added, gen, callers>>

GetModelList(api_type, io) ==
    LET r == get_model_list(world, api_type, io)
    IN  /\ file' = r.w.file
        /\ last' = Call("list", api_type, << >>, TRUE, io)
        /\ UNCHANGED <<DEFAULT_CONFIG, added, gen, callers>>

SetApiConfig(api_type, api_key, base_url, model_name, io) ==
    LET r == set_api_config(world, api_type, api_key, base_url, model_name, io)
    IN  /\ file' = r.w.file
        /\ DEFAULT_CONFIG' = r.w.dflt
        /\ last' = Call("set", api_type, << >>, TRUE, io)
        /\ UNCHANGED <<added, gen, callers>>

AddCustomModel(api_type, model_name, io) ==
    LET r == add_custom_model(world, api_type, model_name, io)
    IN  /\ Len(Get(get_api_config(world, api_type, io).ret, "custom_models", << >>))
              < MaxCustom
        /\ file' = r.w.file
        /\ DEFAULT_CONFIG' = r.w.dflt
        /\ added' = IF r.ret /\ ~Contains(added[api_type], strip(model_name))
                    THEN [added EXCEPT ![api_type] = Append(@, strip(model_name))]
                    ELSE added
        /\ last' = Call("add", api_type, model_name, r.ret, io)
        /\ UNCHANGED <<gen, callers>>

RemoveCustomModel(api_type, model_name, io) ==
    LET r == remove_custom_model(world, api_type, model_name, io)
    IN  /\ file' = r.w.file
        /\ DEFAULT_CONFIG' = r.w.dflt
        /\ added' = IF r.ret /\ Contains(added[api_type], model_name)
                    THEN [added EXCEPT ![api_type] = ListRemove(@, model_name)]
                    ELSE added
        /\ last' = Call("remove", api_type, model_name, r.ret, io)
        /\ UNCHANGED <<gen, callers>>

\* the calls, made for the api_types in types with the storage outcomes in ios
Calls(types, ios) ==
    \E io \in ios :
        \/ LoadConfig(io)
        \/ \E b \in types : GetModelList(b, io)
        \/ \E b \in types, a \in SetArgs : SetApiConfig(b, a[1], a[2], a[3], io)
        \/ \E b \in types, n \in AddNames : AddCustomModel(b, n, io)
        \/ \E b \in types, n \in RemoveNames : RemoveCustomModel(b, n, io)

\* the program on storage that works
Next == Calls(ApiTypes, {OkIO})

Spec == Init /\ [][Next]_vars

(* The program on storage that fails: a read or a write of a call may fail,   *)
(* and the user may delete the file between two calls.                        *)
FaultIOs ==
    {OkIO, IO("fail", "ok", "ok"), IO("ok", "open_fail", "open_fail"),
     IO("ok", "interrupted", "interrupted")}

EnvDeleteFile ==
    /\ file.kind # "missing"
    /\ file' = Missing
    /\ last' = Call("delete", "", << >>, TRUE, OkIO)
    /\ UNCHANGED <<DEFAULT_CONFIG, added, gen, callers>>

NextIO == Calls({"Gemini Native"}, FaultIOs) \/ EnvDeleteFile

SpecIO == Init /\ [][NextIO]_vars

(* The two configuration nodes, through which the workflow host reads and    *)
(* changes the store                                                         *)

\* the override arguments of the loader node: api_key, base_url, model
LoadOverrideArgs ==
    {<<EmptyStr, EmptyStr, EmptyStr>>, <<<<WS, "ov", WS>>, <<WS>>, EmptyStr>>}

\* the arguments of the saver node: api_key, base_url, model_name
SaveFieldArgs == {<<EmptyStr, EmptyStr, EmptyStr>>, <<<<WS, "sk-1", WS>>, <<WS>>, EmptyStr>>}

\* add_custom_model_name and remove_custom_model_name
SaveAddArgs == {EmptyStr, <<WS, "x", WS>>}

SaveRemoveArgs == {EmptyStr, S("x")}

LoaderLoad(api_type, o) ==
    LET r == APIImageConfigLoader_load(world, api_type, o[1], o[2], o[3], OkIO)
    IN  /\ file' = r.w.file
        /\ last' = Call("node_load", api_type, o, r.ret, OkIO)
        /\ UNCHANGED <<DEFAULT_CONFIG, added, gen, callers>>

SaverSave(api_type, f, add_name, remove_name) ==
    LET r    == APIImageConfigSaver_save(world, api_type, f[1], f[2], f[3],
                                         add_name, remove_name, <<OkIO, OkIO, OkIO>>)
        name == strip(add_name)
        rem  == strip(remove_name)
        grew == IF Contains(r.ret, <<"Added custom model", name>>)
                THEN [added EXCEPT ![api_type] = Append(@, name)] ELSE added
    IN  /\ Len(CustomsOf(world, api_type)) < MaxCustom
        /\ file' = r.w.file
        /\ DEFAULT_CONFIG' = r.w.dflt
        /\ added' = IF Contains(r.ret, <<"Removed custom model", rem>>)
                    THEN [grew EXCEPT ![api_type] = ListRemove(@, rem)] ELSE grew
        /\ last' = Call("node_save", api_type, <<f, add_name, remove_name>>, r.ret, OkIO)
        /\ UNCHANGED <<gen, callers>>

NextNodes ==
    \/ \E b \in ApiTypes, o \in LoadOverrideArgs : LoaderLoad(b, o)
    \/ \E b \in ApiTypes, f \in SaveFieldArgs, a \in SaveAddArgs, r \in SaveRemoveArgs :
          SaverSave(b, f, a, r)

SpecNodes == Init /\ [][NextNodes]_vars

(* The generation node alone, on a fresh installation *)
InitGen ==
    /\ file = Missing
    /\ DEFAULT_CONFIG = CompiledDefaults
    /\ added = [b \in ApiTypes |-> << >>]
    /\ last = [op |-> "init", api_type |-> "", arg |-> << >>, ret |-> FALSE, io |-> OkIO]
    /\ gen = GenIdle
    /\ callers = NoCallers

SpecGen == InitGen /\ [][NextGen]_vars

-----------------------------------------------------------------------------
(* Properties. The store a call finds is what load_config returns for it.    *)

Stored(w) == load_config(w, OkIO).config

StoredApi(w) == Stored(w)["api_configs"]

NotBuiltinIn(seq, api_type) ==
    LET NotBuiltin(m) == ~Contains(Get(BUILTIN_MODELS, api_type, << >>), m)
    IN  SelectSeq(seq, NotBuiltin)

(* C1: for every backend, in every store the calls reach, get_model_list     *)
(* has no duplicate, starts with the builtin models in their compiled order, *)
(* and goes on with the custom models that are not builtin, in the order     *)
(* they were added (the stored order, and for the backends the calls add to, *)
(* the order of the add calls).                                              *)
C1_ModelListBuiltinsThenCustoms ==
    \A b \in CheckedApiTypes :
        LET l       == get_model_list(world, b, OkIO).ret
            builtin == Get(BUILTIN_MODELS, b, << >>)
        IN  /\ NoDup(l)
            /\ l = builtin \o NotBuiltinIn(CustomsOf(world, b), b)
            /\ b \in ApiTypes => l = builtin \o NotBuiltinIn(added[b], b)

\* the list was asked for a backend holding a builtin name and an added name
C1_Witness ==
    /\ last.op = "list"
    /\ last.api_type = "Gemini Native"
    /\ added["Gemini Native"] = <<S("gemini-2.5-flash-image"), S("x")>>

\* set_api_config calls that pass one field only
OneFieldArgs ==
    {<<"api_key", Some(S("sk-1")), None, None>>,
     <<"api_key", Some(EmptyStr), None, None>>,
     <<"base_url", None, Some(S("https://proxy")), None>>,
     <<"model_name", None, None, Some(S("x"))>>}

(* C2: set_api_config with one of api_key/base_url/model_name changes that   *)
(* field of the named backend and nothing else in the store: the backend's   *)
(* other fields (those of the blank entry when it had no entry), every other *)
(* backend's entry and every other top-level key are as before.              *)
C2_SetOneFieldFrame ==
    \A b \in CheckedApiTypes, a \in OneFieldArgs :
        LET before == Stored(world)
            after  == Stored(set_api_config(world, b, a[2], a[3], a[4], OkIO).w)
            old    == Get(before["api_configs"], b, BlankEntry)
            value  == (IF a[1] = "api_key" THEN a[2]
                       ELSE IF a[1] = "base_url" THEN a[3] ELSE a[4]).some
        IN  /\ DOMAIN after = DOMAIN before
            /\ \A k \in (DOMAIN before) \ {"api_configs"} : after[k] = before[k]
            /\ DOMAIN after["api_configs"] = (DOMAIN before["api_configs"]) \cup {b}
            /\ \A o \in (DOMAIN before["api_configs"]) \ {b} :
                   after["api_configs"][o] = before["api_configs"][o]
            /\ after["api_configs"][b] = Put(old, a[1], value)

\* api_key alone was set on an entry that had an old key and custom models
C2_Witness ==
    /\ last.op = "set"
    /\ last.api_type = "Gemini Native"
    /\ StoredApi(world)["Gemini Native"].api_key = S("sk-1")
    /\ StoredApi(world)["Gemini Native"].custom_models # << >>

\* the catalog of a backend: its custom_models list and its model list
Catalog(w, api_type) == <<CustomsOf(w, api_type), get_model_list(w, api_type, OkIO).ret>>

(* C3, as claimed: for every backend and name, add_custom_model followed by  *)
(* remove_custom_model of the same name returns the catalog to its state     *)
(* before the add.                                                           *)
C3_RoundTripEveryName ==
    \A b \in CheckedApiTypes, n \in ModelNames :
        LET w1 == add_custom_model(world, b, n, OkIO).w
            w2 == remove_custom_model(w1, b, n, OkIO).w
        IN  Catalog(w2, b) = Catalog(world, b)

(* C3, amended: when add_custom_model(backend, name) returns True, a         *)
(* following remove_custom_model of the name as stored (stripped) returns    *)
(* True and returns the catalog to its state before the add.                 *)
C3_RoundTripOfAddedName ==
    \A b \in CheckedApiTypes, n \in ModelNames :
        LET a == add_custom_model(world, b, n, OkIO)
            r == remove_custom_model(a.w, b, strip(n), OkIO)
        IN  a.ret => r.ret /\ Catalog(r.w, b) = Catalog(world, b)

\* "x", which only add_custom_model stores, was removed again
C3_Witness ==
    /\ last.op = "remove"
    /\ last.ret = TRUE
    /\ last.arg = S("x")
    /\ ~Contains(CustomsOf(world, last.api_type), S("x"))

(* C4, as claimed: remove_custom_model with a name the backend's             *)
(* custom_models lacks returns False and leaves the config file as it was,   *)
(* its existence included.                                                   *)
C4_RemoveAbsentLeavesFile ==
    \A b \in CheckedApiTypes, n \in ModelNames :
        ~Contains(CustomsOf(world, b), n) =>
            LET r == remove_custom_model(world, b, n, OkIO)
            IN  r.ret = FALSE /\ r.w.file = file

(* C4, amended: remove_custom_model with a name the backend's custom_models  *)
(* lacks returns False and leaves the store as load_config reads it, and     *)
(* DEFAULT_CONFIG, unchanged; an existing file keeps its contents, and a     *)
(* missing file is created by load_config holding the defaults.              *)
C4_RemoveAbsentLeavesStore ==
    \A b \in CheckedApiTypes, n \in ModelNames :
        ~Contains(CustomsOf(world, b), n) =>
            LET r == remove_custom_model(world, b, n, OkIO)
            IN  /\ r.ret = FALSE
                /\ Stored(r.w) = Stored(world)
                /\ r.w.dflt = DEFAULT_CONFIG
                /\ file.kind # "missing" => r.w.file = file
                /\ file.kind = "missing" => r.w.file = Json(TopDoc(DEFAULT_CONFIG))

\* a remove found nothing to remove, and the file holds the defaults
C4_Witness ==
    /\ last.op = "remove"
    /\ last.ret = FALSE
    /\ file = Json(TopDoc(DEFAULT_CONFIG))

(* C5: add_custom_model returns False for an empty or whitespace name and    *)
(* for a name already stored, and otherwise appends the stripped name; a     *)
(* second identical add or remove call returns False and leaves the file     *)
(* and DEFAULT_CONFIG as the first call left them.                           *)
C5_AddRemoveIdempotent ==
    \A b \in CheckedApiTypes, n \in ModelNames :
        LET customs == CustomsOf(world, b)
            a1 == add_custom_model(world, b, n, OkIO)
            a2 == add_custom_model(a1.w, b, n, OkIO)
            r1 == remove_custom_model(world, b, n, OkIO)
            r2 == remove_custom_model(r1.w, b, n, OkIO)
        IN  /\ a1.ret = (Truthy(strip(n)) /\ ~Contains(customs, strip(n)))
            /\ a1.ret => CustomsOf(a1.w, b) = Append(customs, strip(n))
            /\ ~a1.ret => Stored(a1.w) = Stored(world)
            /\ a2.ret = FALSE /\ a2.w = a1.w
            /\ r2.ret = FALSE /\ r2.w = r1.w

\* an add of a name that is not blank was refused: the name was stored already
C5_Witness ==
    /\ last.op = "add"
    /\ last.ret = FALSE
    /\ Truthy(strip(last.arg))
    /\ Contains(CustomsOf(world, last.api_type), strip(last.arg))

\* every compiled backend has an entry with every recognized field
IsMigrated(doc) ==
    /\ "api_configs" \in DOMAIN doc
    /\ \A b \in BackendIds :
           /\ b \in DOMAIN doc["api_configs"]
           /\ DOMAIN BlankEntry \subseteq DOMAIN doc["api_configs"][b]

(* C6: two consecutive load_config calls return the same state and leave     *)
(* the same file, the state returned is itself migrated and migrating it     *)
(* again changes nothing, and a file that is already migrated is returned    *)
(* as it is.                                                                 *)
C6_MigrationIdempotent ==
    LET l1 == load_config(world, OkIO)
        l2 == load_config(World(l1.file, DEFAULT_CONFIG), OkIO)
    IN  /\ l2.config = l1.config
        /\ l2.file = l1.file
        /\ IsMigrated(l1.config)
        /\ Migrate(l1.config, DEFAULT_CONFIG).config = l1.config
        /\ (file.kind = "json" /\ IsMigrated(file.doc)) => l1.config = file.doc

\* load_config ran on the older document, which it migrates and does not rewrite
C6_Witness ==
    /\ last.op = "load"
    /\ file = Json(SeedPartial)

\* everything of document `old` is in document `new` with the same value: the
\* top-level keys but api_configs, and every field of every entry but `changed`
KeepsAll(old, new, changed) ==
    /\ \A k \in (DOMAIN old) \ {"api_configs"} : k \in DOMAIN new /\ new[k] = old[k]
    /\ "api_configs" \in DOMAIN old =>
           \A b \in DOMAIN old["api_configs"] :
               /\ b \in DOMAIN new["api_configs"]
               /\ \A k \in DOMAIN old["api_configs"][b] :
                      <<b, k>> \notin changed =>
                          /\ k \in DOMAIN new["api_configs"][b]
                          /\ new["api_configs"][b][k] = old["api_configs"][b][k]

\* the mutating calls, as functions of the world
Mutations ==
    {[op |-> o, api_type |-> b, name |-> n] :
        o \in {"set", "add", "remove"}, b \in CheckedApiTypes, n \in {S("x"), S("y")}}

Mutate(w, m, io) ==
    CASE m.op = "set" -> set_api_config(w, m.api_type, None, None, Some(m.name), io)
      [] m.op = "add" -> add_custom_model(w, m.api_type, m.name, io)
      [] m.op = "remove" -> remove_custom_model(w, m.api_type, m.name, io)

Changed(m) ==
    {<<m.api_type, IF m.op = "set" THEN "model_name" ELSE "custom_models">>}

(* C9: migration adds and never destroys. Loading a document keeps every     *)
(* top-level key, entry and field it has, gives every compiled backend an    *)
(* entry with every recognized field, and what it adds is the compiled       *)
(* default; a later set_api_config, add_custom_model or remove_custom_model  *)
(* writes a file that still has every key and field of the file before,      *)
(* unknown ones included, but the one field the call is about.               *)
C9_MigrationAdditive ==
    file.kind = "json" =>
        LET doc == file.doc
            cfg == load_config(world, OkIO).config
            api == Get(doc, "api_configs", << >>)
        IN  /\ KeepsAll(doc, cfg, {})
            /\ IsMigrated(cfg)
            /\ \A b \in BackendIds :
                   /\ b \notin DOMAIN api => cfg["api_configs"][b] = CompiledDefaults[b]
                   /\ b \in DOMAIN api =>
                          \A k \in (DOMAIN BlankEntry) \ (DOMAIN api[b]) :
                              cfg["api_configs"][b][k] = CompiledDefaults[b][k]
            /\ \A m \in Mutations :
                   LET after == Mutate(world, m, OkIO).w.file
                   IN  after.kind = "json" /\ KeepsAll(doc, after.doc, Changed(m))

\* the older document was rewritten by a call: the unknown top-level key and
\* the unknown field are still there, beside the fields the migration added
C9_Witness ==
    /\ last.op \in {"set", "add", "remove"}
    /\ last.ret = TRUE
    /\ file.kind = "json"
    /\ file.doc # SeedPartial
    /\ "version" \in DOMAIN file.doc
    /\ "note" \in DOMAIN file.doc["api_configs"]["Grok API"]
    /\ file.doc["api_configs"]["Grok API"].base_url = S("https://api.x.ai")
    /\ file.doc["api_configs"]["Grok API"].api_key = S("sk-0")

(* C7, as claimed: load_config on a file that is missing, unreadable or      *)
(* corrupt returns the compiled-in defaults.                                 *)
C7_LoadFallsBackToCompiledDefaults ==
    \A io \in AnyIO :
        (file.kind \in {"missing", "corrupt"} \/ io.rd = "fail") =>
            load_config(world, io).config = TopDoc(CompiledDefaults)

(* C8, as claimed: whatever happens to the save_config of a call, the next   *)
(* load_config returns the complete state from before the call or the        *)
(* complete state the call was writing.                                      *)
C8_SaveLeavesOldOrNewState ==
    file.kind = "json" =>
        \A m \in Mutations, wr \in WriteOutcomes :
            LET got == Mutate(world, m, IO("ok", "ok", wr)).w
                new == Mutate(world, m, OkIO).w
            IN  Stored(got) \in {Stored(world), Stored(new)}

(* C10: generate called with a prompt or an API key that is empty or         *)
(* whitespace fails with the input error (ValueError): it creates no client, *)
(* builds no request and calls the backend not once; and any other call      *)
(* gets past the validation.                                                 *)
C10_FailsFastOnEmptyPromptOrKey ==
    gen.pc # "idle" =>
        LET blank == \/ ~Truthy(strip(gen.req.prompt))
                     \/ ~Truthy(strip(gen.req.api_key))
        IN  /\ blank =>
                /\ gen.pc = "raised"
                /\ gen.error.kind = "ValueError"
                /\ gen.error.what =
                       (IF ~Truthy(strip(gen.req.prompt))
                        THEN "Prompt is empty" ELSE "API Key is not set")
                /\ ~gen.client /\ ~gen.gen_config /\ ~gen.contents
                /\ gen.invocations = 0
            /\ ~blank => ~(gen.pc = "raised" /\ gen.error.kind = "ValueError"
                           /\ gen.error.what \in {"Prompt is empty", "API Key is not set"})

\* a call with a whitespace API key and a prompt was refused
C10_Witness ==
    /\ gen.pc = "raised"
    /\ gen.req.prompt = S("a cat")
    /\ gen.req.api_key = <<WS>>
    /\ gen.error = Raised("ValueError", "API Key is not set")

-----------------------------------------------------------------------------
(* The generate call: validation order, the loop, failures *)

\* the call was ended by validate_ref_images
RefCountRejected ==
    gen.pc = "raised" /\ gen.error = Raised("ValueError", "reference image count")

\* the loop was entered: validation passed and contents were prepared
LoopEntered == gen.pc \in {"call", "await", "finish", "returned", "raised"} /\ gen.contents

\* the call was ended by an invocation that raised
InvocationRaised == gen.pc = "raised" /\ gen.invocations > gen.gen_idx

\* the call has ended after every iteration of the loop got its response
LoopCompleted ==
    gen.pc \in {"returned", "raised"} /\ gen.contents /\ gen.invocations = gen.gen_idx

\* C11: when the reference image count is outside the limits of the effective
\* model, generate fails with no backend invocation made and with neither the
\* request config nor the request contents constructed.
C11_RefCountCheckedBeforeRequestBuilt ==
    RefCountRejected =>
        gen.invocations = 0 /\ ~gen.gen_config /\ ~gen.contents

\* C12: a call that passed validation and has ended made exactly num_images
\* backend invocations, one after the other.
C12_AlwaysExactlyNInvocations ==
    (LoopEntered /\ gen.pc \in {"returned", "raised"}) =>
        gen.invocations = gen.req.num_images

\* C13: a call that fails after the loop was entered has produced no image
\* in any iteration: images of the iterations that succeeded are never lost
\* to the failure of another iteration.
C13_FailureOnlyWithNoImageAtAll ==
    (LoopEntered /\ gen.pc = "raised") => gen.all_images_data = << >>

\* C14: once an invocation has failed the call makes no further invocation,
\* and the invocations of a call never exceed the requested image count.
C14_NoRetryAfterFailure ==
    [][/\ gen.error # NoError => gen'.invocations = gen.invocations
       /\ gen'.pc # "idle" => gen'.invocations <= gen'.req.num_images]_vars

C14_Witness ==
    /\ InvocationRaised
    /\ gen.invocations = 1
    /\ gen.req.num_images >= 2

\* C15: a call that ran its loop to the end returns exactly when the images
\* aggregated over all iterations are not empty; with none it fails, whatever
\* text the iterations produced.
C15_ReturnsOnlyWithAnImage ==
    /\ gen.pc = "returned" => gen.all_images_data # << >>
    /\ LoopCompleted => (gen.pc = "returned" <=> gen.all_images_data # << >>)

C15_Witness ==
    /\ LoopCompleted
    /\ gen.pc = "raised"
    /\ gen.all_images_data = << >>
    /\ gen.all_text_messages # << >>

\* the signals the except branch recognizes
RecognizedSignals ==
    {"401", "UNAUTHENTICATED", "404", "NOT_FOUND", "403", "PERMISSION_DENIED",
     "429", "RESOURCE_EXHAUSTED", "503", "UNAVAILABLE", "timed out", "timeout"}

\* C16: every error an invocation raises ends the call with one RuntimeError
\* whose message names the backend; 401/UNAUTHENTICATED gives the
\* authentication failure, and an error with no recognized signal gives the
\* generic API error carrying the raw message.
C16_ClassificationTotalAndNamesBackend ==
    /\ \A e \in BackendErrors, m \in {S("gemini-2.5-flash-image"), S("my-model")} :
          LET r == ClassifyError(e, m)
          IN  /\ r.kind = "RuntimeError"
              /\ Head(r.what) = BackendTag
              /\ (Mentions(e, "401") \/ Mentions(e, "UNAUTHENTICATED"))
                    => r.what = <<BackendTag, "Authentication failed (401)">>
              /\ (\A t \in RecognizedSignals : ~Mentions(LowerStr(e), t) /\ ~Mentions(e, t))
                    => r.what = <<BackendTag, "API Error", e>>
    /\ InvocationRaised =>
          /\ gen.error.kind = "RuntimeError"
          /\ Head(gen.error.what) = BackendTag
          /\ \E e \in BackendErrors : gen.error = ClassifyError(e, gen.effective_model)

C16_Witness ==
    /\ InvocationRaised
    /\ gen.error = Raised("RuntimeError",
                          <<BackendTag, "API Error", <<"connection", "reset">>>>)

-----------------------------------------------------------------------------
(* The configuration nodes *)

\* a name with whitespace around it
Padded(name) == <<WS>> \o name \o <<WS>>

\* the save calls whose add_custom_model_name is the stored custom model n of
\* backend b, as it is or padded, with the other arguments drawn from `rems`
\* and the field arguments
SavesAddingExisting(b, n, rems, P(_, _)) ==
    \A f \in {<<EmptyStr, EmptyStr, EmptyStr>>, <<<<WS, "sk-1", WS>>, EmptyStr, S("z")>>},
       a \in {n, Padded(n)}, rm \in rems :
        P(APIImageConfigSaver_save(world, b, f[1], f[2], f[3], a, rm,
                                   <<OkIO, OkIO, OkIO>>), rm)

\* the call reported "already exists" for n and left the catalog of b as it was
ExistsAndCatalogKept(b, n, r) ==
    /\ Contains(r.ret, <<"Model already exists", n>>)
    /\ CustomsOf(r.w, b) = CustomsOf(world, b)
    /\ get_model_list(r.w, b, OkIO).ret = get_model_list(world, b, OkIO).ret

\* C17 as stated: save with add_custom_model_name naming a stored custom
\* model of the backend returns a status with "already exists" and leaves the
\* catalog unchanged, whatever its other arguments are.
C17_SaveExistingKeepsCatalogAlways ==
    \A b \in CheckedApiTypes :
        \A i \in 1..Len(CustomsOf(world, b)) :
            LET n == CustomsOf(world, b)[i]
                P(r, rm) == ExistsAndCatalogKept(b, n, r)
            IN  Given(n) => SavesAddingExisting(b, n, ModelNames, P)

\* C17: save with add_custom_model_name naming a stored custom model of the
\* backend returns a status with "already exists"; the catalog is unchanged
\* exactly when remove_custom_model_name is blank or names no stored model,
\* and otherwise differs by the removed model only.
C17_SaveExistingKeepsCatalogUnlessRemoving ==
    \A b \in CheckedApiTypes :
        \A i \in 1..Len(CustomsOf(world, b)) :
            LET n == CustomsOf(world, b)[i]
                customs == CustomsOf(world, b)
                P(r, rm) ==
                    /\ Contains(r.ret, <<"Model already exists", n>>)
                    /\ IF Given(rm) /\ Contains(customs, strip(rm))
                       THEN CustomsOf(r.w, b) = ListRemove(customs, strip(rm))
                       ELSE ExistsAndCatalogKept(b, n, r)
            IN  Given(n) => SavesAddingExisting(b, n, ModelNames, P)

\* the saver was asked to add " x " where x was stored, and to remove nothing
C17_Witness ==
    /\ last.op = "node_save"
    /\ last.arg[2] = <<WS, "x", WS>>
    /\ last.arg[3] = EmptyStr
    /\ Contains(last.ret, <<"Model already exists", S("x")>>)
    /\ Contains(CustomsOf(world, last.api_type), S("x"))

\* the value the store holds for a field of a backend, "" when it holds none
StoredField(w, api_type, field) ==
    LET api == StoredApi(w)
    IN  IF api_type \in DOMAIN api /\ field \in DOMAIN api[api_type]
        THEN api[api_type][field] ELSE EmptyStr

\* the overrides the property ranges over
OverrideArgs == {EmptyStr, <<WS>>, <<WS, "ov", WS>>}

\* C18: each of the three values APIImageConfigLoader.load returns is the
\* stripped override when the override is not blank, and the value stored
\* for the backend otherwise; the load leaves the stored values, an existing
\* file and DEFAULT_CONFIG as they were.
C18_LoadOverridesIfNonEmpty ==
    \A b \in CheckedApiTypes, o1 \in OverrideArgs, o2 \in OverrideArgs, o3 \in OverrideArgs :
        LET r == APIImageConfigLoader_load(world, b, o1, o2, o3, OkIO)
            Expect(o, field) ==
                IF strip(o) # EmptyStr THEN strip(o) ELSE StoredField(world, b, field)
        IN  /\ r.ret = <<Expect(o1, "api_key"), Expect(o2, "base_url"),
                         Expect(o3, "model_name")>>
            /\ Stored(r.w) = Stored(world)
            /\ r.w.dflt = DEFAULT_CONFIG
            /\ file.kind # "missing" => r.w.file = file

\* the loader returned a stripped override next to a stored value, the blank
\* override being ignored
C18_Witness ==
    /\ last.op = "node_load"
    /\ last.arg = <<<<WS, "ov", WS>>, <<WS>>, EmptyStr>>
    /\ last.ret[1] = S("ov")
    /\ last.ret[2] = StoredField(world, last.api_type, "base_url")
    /\ last.ret[2] # EmptyStr
    /\ StoredField(world, last.api_type, "api_key") # EmptyStr

-----------------------------------------------------------------------------
(* The custom model lists and the compiled defaults *)

\* seq without the entries equal to name, the others in their order
Without(seq, name) ==
    LET Other(m) == m # name
    IN  SelectSeq(seq, Other)

\* C19: in every store the calls reach from a file without duplicates, each
\* backend's custom_models has no duplicate and is in insertion order: an
\* add that returns True appends the stripped name, a remove that returns
\* True takes the name out and keeps the others in place, and a call that
\* returns False, or set_api_config, leaves the list as it was.
C19_CustomModelsDuplicateFreeInOrder ==
    \A b \in CheckedApiTypes :
        LET customs == CustomsOf(world, b)
        IN  /\ NoDup(customs)
            /\ b \in ApiTypes => customs = added[b]
            /\ \A n \in ModelNames :
                  LET a == add_custom_model(world, b, n, OkIO)
                      r == remove_custom_model(world, b, n, OkIO)
                  IN  /\ CustomsOf(a.w, b) =
                            IF a.ret THEN Append(customs, strip(n)) ELSE customs
                      /\ NoDup(CustomsOf(a.w, b))
                      /\ r.ret => ~Contains(CustomsOf(r.w, b), n)
                      /\ CustomsOf(r.w, b) =
                            IF r.ret THEN Without(customs, n) ELSE customs
            /\ \A s \in SetArgs :
                  CustomsOf(set_api_config(world, b, s[1], s[2], s[3], OkIO).w, b)
                      = customs

\* a remove returned True and left a list of two without the removed name
C19_Witness ==
    /\ last.op = "remove"
    /\ last.ret
    /\ last.api_type = "Gemini Native"
    /\ Len(CustomsOf(world, "Gemini Native")) = 2
    /\ ~Contains(CustomsOf(world, "Gemini Native"), last.arg)

\* C20: after any sequence of load_config, set_api_config, add_custom_model
\* and remove_custom_model DEFAULT_CONFIG equals its compiled value, and a
\* load that finds no file returns the compiled defaults.
C20_DefaultsImmutable ==
    /\ DEFAULT_CONFIG = CompiledDefaults
    /\ load_config(World(Missing, DEFAULT_CONFIG), OkIO).config = TopDoc(CompiledDefaults)

-----------------------------------------------------------------------------
(* Reported success and persistence *)

\* C21: whatever the storage does during the call, when add_custom_model or
\* remove_custom_model returns True, or set_api_config returns, the next
\* load_config observes the change.
C21_SuccessImpliesPersistence ==
    \A io \in FaultIOs, b \in {"Gemini Native"} :
        /\ \A n \in ModelNames :
              LET a == add_custom_model(world, b, n, io)
                  r == remove_custom_model(world, b, n, io)
              IN  /\ a.ret => Contains(CustomsOf(a.w, b), strip(n))
                  /\ r.ret => ~Contains(CustomsOf(r.w, b), n)
        /\ StoredField(set_api_config(world, b, Some(S("sk-1")), None, None, io).w,
                       b, "api_key") = S("sk-1")

-----------------------------------------------------------------------------
(* The message of a call that ends without an image *)

\* the error_parts in the message of the failure raised
RaisedParts == gen.error.what[3]

\* C22: when every invocation returned and no image was produced, the
\* failure message has the finish reason of every response that did not
\* finish with STOP, the blocked safety ratings of every response that has
\* any, and the text of all iterations; with none of these it says that
\* there is no image data.
C22_FailureCarriesEveryDiagnostic ==
    (LoopCompleted /\ gen.pc = "raised") =>
        /\ \A i \in 1..Len(gen.responses) :
              LET response == gen.responses[i]
              IN  /\ response.finish_reason # "STOP"
                        => Contains(RaisedParts, <<"Blocked", response.finish_reason>>)
                  /\ response.blocked # {}
                        => Contains(RaisedParts, <<"Safety", response.blocked>>)
        /\ gen.all_text_messages # << >>
              => Contains(RaisedParts, <<"Model response", gen.all_text_messages>>)
        /\ ((\A i \in 1..Len(gen.responses) :
                 gen.responses[i].finish_reason = "STOP" /\ gen.responses[i].blocked = {})
            /\ gen.all_text_messages = << >>)
              => RaisedParts = <<<<"No image data in response">>>>

-----------------------------------------------------------------------------
(* The order of the parts of a save *)

\* field arguments of save that set something
SetFieldArgs ==
    {<<<<WS, "sk-1", WS>>, EmptyStr, EmptyStr>>,
     <<EmptyStr, S("https://proxy"), <<WS, "z">>>>}

\* names given to save to add, and to remove
AddedNames == {S("x"), <<WS, "x", WS>>, S("y")}

RemovedNames == {S("x"), S("y"), S("gemini-2.5-flash-image")}

\* C23: one save call that sets fields, adds A and removes B leaves the
\* store with the fields set, B absent and A present unless A is B; its
\* status has the part for the fields, then the part for A, then the part
\* for B, the parts for A and B telling what add and remove found in the
\* store the previous step wrote.
C23_SaveAppliesSetAddRemoveInOrder ==
    \A b \in CheckedApiTypes, f \in SetFieldArgs, A \in AddedNames, B \in RemovedNames :
        LET r       == APIImageConfigSaver_save(world, b, f[1], f[2], f[3], A, B,
                                                <<OkIO, OkIO, OkIO>>)
            before  == CustomsOf(world, b)
            customs == CustomsOf(r.w, b)
            afterAdd == IF Contains(before, strip(A)) THEN before
                        ELSE Append(before, strip(A))
            Field(i, field) ==
                StoredField(r.w, b, field) =
                    IF Given(f[i]) THEN strip(f[i]) ELSE StoredField(world, b, field)
        IN  /\ Field(1, "api_key") /\ Field(2, "base_url") /\ Field(3, "model_name")
            /\ ~Contains(customs, strip(B))
            /\ Contains(customs, strip(A)) <=> strip(A) # strip(B)
            /\ customs = Without(afterAdd, strip(B))
            /\ r.ret = << <<"Saved config for", b, KwargKeys(f[1], f[2], f[3])>>,
                          IF Contains(before, strip(A))
                          THEN <<"Model already exists", strip(A)>>
                          ELSE <<"Added custom model", strip(A)>>,
                          IF Contains(afterAdd, strip(B))
                          THEN <<"Removed custom model", strip(B)>>
                          ELSE <<"Model not found", strip(B)>> >>

\* a save set a field, added x and removed x again
C23_Witness ==
    /\ last.op = "node_save"
    /\ last.ret = << <<"Saved config for", last.api_type, <<"api_key">>>>,
                     <<"Added custom model", S("x")>>,
                     <<"Removed custom model", S("x")>> >>
    /\ ~Contains(CustomsOf(world, last.api_type), S("x"))
    /\ StoredField(world, last.api_type, "api_key") = S("sk-1")

-----------------------------------------------------------------------------
(* Classification by the error's own signal *)

\* the signal an error carries: the first fragment of its message that is a
\* status code, a status name or a timeout text
RECURSIVE OwnSignal(_)
OwnSignal(error_str) ==
    IF error_str = << >> THEN "none"
    ELSE IF Lower(Head(error_str)) \in RecognizedSignals THEN Lower(Head(error_str))
    ELSE OwnSignal(Tail(error_str))

\* the failure each signal stands for
KindOfSignal(signal) ==
    CASE signal \in {"401", "UNAUTHENTICATED"}     -> "Authentication failed (401)"
      [] signal \in {"404", "NOT_FOUND"}           -> "Model not found (404)"
      [] signal \in {"403", "PERMISSION_DENIED"}   -> "Permission denied (403)"
      [] signal \in {"429", "RESOURCE_EXHAUSTED"}  -> "API quota exceeded (429)"
      [] signal \in {"503", "UNAVAILABLE"}         -> "Model overloaded (503)"
      [] signal \in {"timed out", "timeout"}       -> "Network timeout"
      [] OTHER                                     -> "API Error"

\* C24: the failure an invocation error is classified as is the one its own
\* signal stands for, whatever else its message contains.
C24_ClassifiedByOwnSignal ==
    InvocationRaised => gen.error.what[2] = KindOfSignal(OwnSignal(gen.error_str))

-----------------------------------------------------------------------------
(* Concurrent callers: processes that have each imported config.py, so each *)
(* has a DEFAULT_CONFIG of its own, and that share api_config.json. A       *)
(* mutation is a load_config, the change of the loaded dict, and a          *)
(* save_config; another process may run between the load and the save.      *)

Callers == {1, 2}

\* the mutations the callers make
CallerMutations ==
    {[op |-> "set", api_type |-> "Gemini Native", name |-> S("x")],
     [op |-> "add", api_type |-> "Gemini Native", name |-> S("x")],
     [op |-> "remove", api_type |-> "Gemini Native", name |-> S("y")]}

NoMutation == [op |-> "none", api_type |-> "", name |-> EmptyStr]

\* a caller between two calls; base is the file its load found, done the
\* mutation it completed last, ret whether that one reported a change saved
IdleCaller(dflt) ==
    [pc |-> "idle", dflt |-> dflt, base |-> Missing, m |-> NoMutation,
     done |-> NoMutation, ret |-> FALSE]

\* the mutation has written the file: set_api_config always saves, add and
\* remove save when they return True
Saves(m, r) == IF m.op = "set" THEN TRUE ELSE r.ret

InitCallers ==
    /\ file \in SeedFiles
    /\ DEFAULT_CONFIG = CompiledDefaults
    /\ added = [b \in ApiTypes |-> CustomsOf(World(file, CompiledDefaults), b)]
    /\ last = [op |-> "init", api_type |-> "", arg |-> << >>, ret |-> FALSE, io |-> OkIO]
    /\ gen = GenIdle
    /\ callers = [proc |-> [c \in Callers |-> IdleCaller(CompiledDefaults)],
                  seq |-> file, overlapped |-> FALSE, started |-> 0]

\* the load_config a mutation starts with
BeginMutation(c, m) ==
    LET me == callers.proc[c]
        ld == load_config(World(file, me.dflt), OkIO)
    IN  /\ me.pc = "idle"
        /\ callers.started < MaxMutations
        /\ file' = ld.file
        /\ callers' = [callers EXCEPT
              !.proc[c] = [me EXCEPT !.pc = "loaded", !.base = file, !.m = m],
              !.started = @ + 1,
              !.overlapped = @ \/ \E d \in Callers \ {c} : callers.proc[d].pc = "loaded"]
        /\ UNCHANGED <<DEFAULT_CONFIG, added, last, gen>>

\* a mutation that changes the loaded dict and does not save it
CommitMutation_NoSave(c) ==
    LET me == callers.proc[c]
        r  == Mutate(World(me.base, me.dflt), me.m, OkIO)
    IN  /\ me.pc = "loaded"
        /\ callers' = [callers EXCEPT
              !.proc[c] = [me EXCEPT !.pc = "idle", !.dflt = r.w.dflt, !.m = NoMutation,
                                     !.done = me.m, !.ret = Saves(me.m, r)],
              !.seq = Mutate(World(callers.seq, me.dflt), me.m, OkIO).w.file]
        /\ UNCHANGED <<file, DEFAULT_CONFIG, added, last, gen>>

\* the rest of the mutation: the dict loaded from base is changed and saved
\* over whatever the file holds by now. seq is the file that the completed
\* mutations give when each is applied whole, in the order they complete.
CommitMutation(c) ==
    LET me == callers.proc[c]
        r  == Mutate(World(me.base, me.dflt), me.m, OkIO)
    IN  /\ me.pc = "loaded"
        /\ file' = IF Saves(me.m, r) THEN r.w.file ELSE file
        /\ callers' = [callers EXCEPT
              !.proc[c] = [me EXCEPT !.pc = "idle", !.dflt = r.w.dflt, !.m = NoMutation,
                                     !.done = me.m, !.ret = Saves(me.m, r)],
              !.seq = Mutate(World(callers.seq, me.dflt), me.m, OkIO).w.file]
        /\ UNCHANGED <<DEFAULT_CONFIG, added, last, gen>>

NextCallers ==
    \/ \E c \in Callers, m \in CallerMutations : BeginMutation(c, m)
    \/ \E c \in Callers : CommitMutation(c)

SpecCallers == InitCallers /\ [][NextCallers]_vars

\* no caller is inside a mutation
AllIdle == \A c \in Callers : callers.proc[c].pc = "idle"

\* what the file holds for the backend the callers change
FileCustoms == CustomsOf(World(file, CompiledDefaults), "Gemini Native")

FileModelName == StoredField(World(file, CompiledDefaults), "Gemini Native", "model_name")

\* the update caller c completed last is in the file
UpdateKept(c) ==
    LET me == callers.proc[c]
    IN  /\ (me.done.op = "add" /\ me.ret) => Contains(FileCustoms, me.done.name)
        /\ (me.done.op = "remove" /\ me.ret) => ~Contains(FileCustoms, me.done.name)

\* C25: as long as no mutation started while another was between its load
\* and its save, the file between mutations is what the completed mutations
\* give applied one after the other, and holds every completed add and
\* remove; when mutations interleave, a completed update can be lost.
C25_SingleWriterIsSequential ==
    (~callers.overlapped /\ AllIdle) =>
        /\ file = callers.seq
        /\ \A c \in Callers : UpdateKept(c)

\* one caller's add of x returned True, the other caller set the model name
\* meanwhile, both are done, and the file has the model name and not x
C25_Witness ==
    /\ AllIdle
    /\ callers.overlapped
    /\ callers.proc[1].done = [op |-> "add", api_type |-> "Gemini Native", name |-> S("x")]
    /\ callers.proc[1].ret
    /\ callers.proc[2].done = [op |-> "set", api_type |-> "Gemini Native", name |-> S("x")]
    /\ callers.started = 2
    /\ ~Contains(FileCustoms, S("x"))
    /\ FileModelName = S("x")
    /\ file # callers.seq

====
